---- MODULE Spec2Model ----
(***************************************************************************)
(* Model of the shop bot: the catalog loader (src/data_loader.py) and the  *)
(* cart / order handlers (src/bot.py).  Handlers run on the bot's worker   *)
(* threads, so a handler that reads, then writes, is split into the steps   *)
(* between which another thread can run.  Code that runs under             *)
(* CatalogLoader.lock and touches only state guarded by the lock is one    *)
(* step, except that reduce_stock writes loader.data (which the handlers   *)
(* read without the lock) before it saves, and so is two steps.            *)
(***************************************************************************)
EXTENDS Integers, Sequences, FiniteSets, Bags, TLC

\* ------------------------------------------------------------------ bounds
MaxStock == 2
NumThreads == 2
MaxCalls == 3
MaxEdits == 2
MaxOrders == 2
SeqOrders == 1
SyncCalls == 2
SyncEdits == 1

Threads == 1..NumThreads
\* The thread of auto_reload_catalog, beside the bot's worker threads.
Loop == NumThreads + 1
ItemIds == {1, 2}
Sessions == {"A", "B"}
Prices == {5}

VARIABLES
    data,           \* loader.data: item id -> [price, stock]
    last_modified,  \* loader.last_modified; 0 is None
    lock,           \* loader.lock: 0 when free, else the thread holding it
    file,           \* the Excel file at loader.path
    backup,         \* the file at loader.path + ".backup"
    clock,          \* the file system's time: the mtime of the latest write
    edits,          \* number of edits made to the source from outside
    user_carts,     \* bot.user_carts: session -> (item id -> quantity)
    user_orders,    \* bot.user_orders: session -> pending checkout
    step,           \* the next-step handler registered for a session
    all_orders,     \* bot.all_orders: order id -> order
    order_counter,  \* bot.order_counter
    pc,             \* thread -> its position
    loc,            \* thread -> the locals of the handler it runs
    calls,          \* history: bag of the finished reduce_stock calls
    initStock,      \* history: the catalog as first loaded
    persisted,      \* history: loader.data as of the last successful save or load
    dirtyRead,      \* history: a handler read the stock reduce_stock has written and not yet saved
    phantomRead     \* history: a handler read a stock that was then rolled back

vars == <<data, last_modified, lock, file, backup, clock, edits, user_carts,
          user_orders, step, all_orders, order_counter, pc, loc, calls,
          initStock, persisted, dirtyRead, phantomRead>>

catalogVars == <<data, last_modified, lock, file, backup, clock>>
shopVars == <<user_carts, user_orders, step, all_orders, order_counter>>
histVars == <<calls, initStock, persisted, dirtyRead, phantomRead>>

\* ------------------------------------------------------------ the source
\* A cell of the sheet: a number, a text that is no number, or nothing.
Num(n) == [k |-> "num", v |-> n]
Text == [k |-> "text", v |-> 0]
Blank == [k |-> "blank", v |-> 0]

NoFile == [exists |-> FALSE, readable |-> FALSE, cols |-> FALSE, rows |-> <<>>, mtime |-> 0]
SheetFile(rows, t) == [exists |-> TRUE, readable |-> TRUE, cols |-> TRUE, rows |-> rows, mtime |-> t]
CorruptFile(t) == [exists |-> TRUE, readable |-> FALSE, cols |-> FALSE, rows |-> <<>>, mtime |-> t]

Min(a, b) == IF a < b THEN a ELSE b

RECURSIVE SetToSortedSeq(_)
SetToSortedSeq(S) ==
    IF S = {} THEN <<>>
    ELSE LET m == CHOOSE x \in S : \A y \in S : x <= y
         IN <<m>> \o SetToSortedSeq(S \ {m})

\* pd.to_numeric(errors='coerce').fillna(0) after df.fillna({... 0}).
CoerceOrZero(c) == IF c.k = "num" THEN c.v ELSE 0

ParseRows(rows) ==
    LET numeric == SelectSeq(rows, LAMBDA r : r.id.k = "num")
        first(k) == \A j \in 1..(k - 1) : numeric[j].id.v # numeric[k].id.v
        kept == {k \in 1..Len(numeric) : first(k) /\ numeric[k].id.v > 0}
        ids == {numeric[k].id.v : k \in kept}
        rowOf(i) == numeric[CHOOSE k \in kept : numeric[k].id.v = i]
    IN [i \in ids |-> [price |-> CoerceOrZero(rowOf(i).price),
                       stock |-> CoerceOrZero(rowOf(i).stock)]]

\* Mutant of TryLoad: a source that has not changed empties the catalog.
TryLoadForgets(d, lm, f) ==
    LET fail == [data |-> d, last_modified |-> lm, failed |-> TRUE]
    IN IF ~f.exists THEN fail
       ELSE IF lm # 0 /\ f.mtime = lm
            THEN [data |-> <<>>, last_modified |-> lm, failed |-> FALSE]
       ELSE IF ~f.readable THEN fail
       ELSE IF f.rows = <<>>
            THEN [data |-> <<>>, last_modified |-> lm, failed |-> FALSE]
       ELSE IF ~f.cols THEN fail
       ELSE [data |-> ParseRows(f.rows), last_modified |-> f.mtime, failed |-> FALSE]

\* The try block of CatalogLoader._load: what it leaves in data and
\* last_modified, and whether it ended in an exception (failed).
TryLoad(d, lm, f) ==
    LET fail == [data |-> d, last_modified |-> lm, failed |-> TRUE]
    IN IF ~f.exists THEN fail
       ELSE IF lm # 0 /\ f.mtime = lm
            THEN [data |-> d, last_modified |-> lm, failed |-> FALSE]
       ELSE IF ~f.readable THEN fail
       ELSE IF f.rows = <<>>
            THEN [data |-> <<>>, last_modified |-> lm, failed |-> FALSE]
       ELSE IF ~f.cols THEN fail
       ELSE [data |-> ParseRows(f.rows), last_modified |-> f.mtime, failed |-> FALSE]

\* Mutant of Load: the handler drops the catalog when the load failed.
LoadClearsOnFailure(d, lm, f) ==
    LET r == TryLoad(d, lm, f)
    IN [data |-> IF r.failed THEN <<>> ELSE r.data, last_modified |-> r.last_modified,
        failed |-> r.failed, raised |-> r.failed /\ r.data = <<>>]

\* CatalogLoader._load with its handler: the exception leaves _load (raised)
\* only when no catalog is in memory.
Load(d, lm, f) ==
    LET r == TryLoad(d, lm, f)
    IN [data |-> r.data, last_modified |-> r.last_modified,
        failed |-> r.failed, raised |-> r.failed /\ r.data = <<>>]

\* pd.DataFrame.from_dict(self.data, orient='index') written by to_excel.
Serialize(d) ==
    LET ids == SetToSortedSeq(DOMAIN d)
    IN [k \in 1..Len(ids) |-> [id |-> Num(ids[k]), price |-> Num(d[ids[k]].price),
                               stock |-> Num(d[ids[k]].stock)]]

\* What can go wrong in one _save_to_excel: the backup copy, the write (it
\* fails before touching the file, or leaves it truncated), the removal of
\* the backup, the restore from the backup.
Faults == [copy : BOOLEAN, write : {"ok", "fail", "corrupt"}, remove : BOOLEAN, restore : BOOLEAN]
NoFault == [copy |-> FALSE, write |-> "ok", remove |-> FALSE, restore |-> FALSE]

\* CatalogLoader._save_to_excel
SaveToExcel(d, f, b, lm, clk, flt) ==
    LET b1 == IF f.exists /\ ~flt.copy THEN f ELSE b
    IN IF flt.write = "ok"
       THEN [ok |-> TRUE, file |-> SheetFile(Serialize(d), clk + 1),
             backup |-> IF b1.exists /\ ~flt.remove THEN NoFile ELSE b1,
             last_modified |-> clk + 1, clock |-> clk + 1]
       ELSE LET f2 == IF flt.write = "corrupt" THEN CorruptFile(clk + 1) ELSE f
                c2 == IF flt.write = "corrupt" THEN clk + 1 ELSE clk
            IN [ok |-> FALSE,
                file |-> IF b1.exists /\ ~flt.restore THEN b1 ELSE f2,
                backup |-> b1, last_modified |-> lm, clock |-> c2]

\* --------------------------------------------------------------- threads
Idle == [op |-> "none", sess |-> "-", oid |-> 0, item |-> 0, qty |-> 0, orig |-> 0,
         todo |-> <<>>, items |-> <<>>, errors |-> <<>>, total |-> 0, res |-> "-"]

AllIdle == \A w \in Threads : pc[w] = "idle"

\* The item whose stock reduce_stock has written and not yet saved, if any.
Uncommitted == {loc[w].item : w \in {v \in Threads : pc[v] = "rs_save"}}

\* A handler reads item i's stock from loader.data, without the lock.
ReadsStock(i) ==
    dirtyRead' = (dirtyRead \/ i \in Uncommitted)

\* The callback is answered and the thread takes the next update.
Answer(w) ==
    /\ pc[w] = "answer"
    /\ pc' = [pc EXCEPT ![w] = "idle"]
    /\ loc' = [loc EXCEPT ![w] = Idle]
    /\ UNCHANGED <<catalogVars, edits, shopVars, histVars>>

\* ---------------------------------------------------------- reduce_stock
\* Mutant of ReduceCheck: the stock is not compared with the quantity.
ReduceCheckNoStock(d, i, q) ==
    IF i \notin DOMAIN d THEN "not_found" ELSE "ok"

\* CatalogLoader.reduce_stock, the checks before the write
ReduceCheck(d, i, q) ==
    IF i \notin DOMAIN d THEN "not_found"
    ELSE IF d[i].stock < q THEN "insufficient"
    ELSE "ok"

\* Mutant of Rollback: the stock written in memory stays.
NoRollback(d, i, orig) == d

\* CatalogLoader.reduce_stock, the handler of a failed save
Rollback(d, i, orig) == [d EXCEPT ![i].stock = orig]

\* reduce_stock returns to its caller: a direct call ends, deliver goes on
\* with its next line.
ReduceReturns(w, res) ==
    /\ calls' = calls (+) SetToBag({[by |-> <<loc[w].oid, loc[w].sess>>, item |-> loc[w].item,
                                     qty |-> loc[w].qty, res |-> res]})
    /\ IF loc[w].op = "deliver"
       THEN /\ pc' = [pc EXCEPT ![w] = "dl_line"]
            /\ loc' = [loc EXCEPT ![w].todo = Tail(@)]
       ELSE /\ pc' = [pc EXCEPT ![w] = "idle"]
            /\ loc' = [loc EXCEPT ![w] = Idle]

\* A direct call of loader.reduce_stock(i, q).
CallReduceStock(w, i, q) ==
    /\ pc[w] = "idle"
    /\ BagCardinality(calls) + Cardinality({v \in Threads : pc[v] # "idle"}) < MaxCalls
    /\ pc' = [pc EXCEPT ![w] = "rs_lock"]
    /\ loc' = [loc EXCEPT ![w] = [Idle EXCEPT !.op = "reduce", !.item = i, !.qty = q]]
    /\ UNCHANGED <<catalogVars, edits, shopVars, histVars>>

\* reduce_stock takes the lock, checks the item and writes the new stock.
ReduceStockWrite(w) ==
    /\ pc[w] = "rs_lock"
    /\ lock = 0
    /\ LET i == loc[w].item
           q == loc[w].qty
           chk == ReduceCheck(data, i, q)
       IN IF chk = "ok"
          THEN /\ data' = [data EXCEPT ![i].stock = @ - q]
               /\ lock' = w
               /\ pc' = [pc EXCEPT ![w] = "rs_save"]
               /\ loc' = [loc EXCEPT ![w].orig = data[i].stock]
               /\ UNCHANGED calls
          ELSE /\ ReduceReturns(w, chk)
               /\ UNCHANGED <<data, lock>>
    /\ UNCHANGED <<last_modified, file, backup, clock, edits, shopVars,
                   initStock, persisted, dirtyRead, phantomRead>>

\* reduce_stock saves, with one of the faults F the environment can produce; a
\* failed save rolls the stock back.  The lock is released.
ReduceStockSave(w, F) ==
    /\ pc[w] = "rs_save"
    /\ \E flt \in F :
         LET r == SaveToExcel(data, file, backup, last_modified, clock, flt)
         IN /\ file' = r.file
            /\ backup' = r.backup
            /\ clock' = r.clock
            /\ last_modified' = r.last_modified
            /\ IF r.ok
               THEN /\ UNCHANGED <<data, phantomRead>>
                    /\ persisted' = data
                    /\ ReduceReturns(w, "ok")
               ELSE /\ data' = Rollback(data, loc[w].item, loc[w].orig)
                    /\ phantomRead' = (phantomRead \/ dirtyRead)
                    /\ UNCHANGED persisted
                    /\ ReduceReturns(w, "persist")
    /\ lock' = 0
    /\ dirtyRead' = FALSE
    /\ UNCHANGED <<edits, shopVars, initStock>>

\* ------------------------------------------------------------------ init
SourceCatalogs ==
    UNION {[S -> [price : Prices, stock : 0..MaxStock]] : S \in SUBSET ItemIds}

\* user_orders holds no checkout of the session.
NoPending == [has |-> FALSE, cart |-> <<>>]

\* The state after CatalogLoader(path) and the module's globals are set up,
\* for a source that holds catalog c.
InitWith(c) ==
    /\ file = SheetFile(Serialize(c), 1)
    /\ backup = NoFile
    /\ clock = 1
    /\ edits = 0
    /\ LET r == Load(<<>>, 0, file)
       IN /\ data = r.data
          /\ last_modified = r.last_modified
    /\ lock = 0
    /\ user_carts = [s \in Sessions |-> <<>>]
    /\ user_orders = [s \in Sessions |-> NoPending]
    /\ step = [s \in Sessions |-> "none"]
    /\ all_orders = <<>>
    /\ order_counter = 1
    /\ pc = [w \in Threads \cup {Loop} |-> IF w = Loop THEN "sleep" ELSE "idle"]
    /\ loc = [w \in Threads \cup {Loop} |-> IF w = Loop THEN [Idle EXCEPT !.op = "loop"] ELSE Idle]
    /\ calls = EmptyBag
    /\ initStock = c
    /\ persisted = c
    /\ dirtyRead = FALSE
    /\ phantomRead = FALSE

Init == \E c \in SourceCatalogs : InitWith(c)

\* The shop opens with one item on sale; the other id is unknown to the catalog.
ShopCatalogs == {c \in SourceCatalogs : DOMAIN c = {1}}

InitShop == \E c \in ShopCatalogs : InitWith(c)

\* A save either succeeds or fails before it has touched the source.
SaveOrFail == {NoFault, [NoFault EXCEPT !.write = "fail"]}

\* ------------------------------------------- reduce_stock called directly
NextStock ==
    \E w \in Threads :
        \/ \E i \in ItemIds, q \in 1..MaxStock : CallReduceStock(w, i, q)
        \/ ReduceStockWrite(w)
        \/ ReduceStockSave(w, SaveOrFail)

SpecStock == Init /\ [][NextStock]_vars

\* ---------------------------------------------------------------- reload
\* Rows as an editor of the sheet may leave them: a negative stock, a
\* repeated id, an id or a price that is no number, a non-positive id.
OddRows ==
    { <<[id |-> Num(1), price |-> Num(5), stock |-> Num(-1)]>>,
      <<[id |-> Num(1), price |-> Num(5), stock |-> Num(1)],
        [id |-> Num(1), price |-> Num(5), stock |-> Num(2)]>>,
      <<[id |-> Text, price |-> Num(5), stock |-> Num(1)],
        [id |-> Num(2), price |-> Text, stock |-> Blank]>>,
      <<[id |-> Num(0), price |-> Num(5), stock |-> Num(1)]>> }

\* A restocked sheet: every item it lists has the full stock.
RestockCatalogs == {c \in SourceCatalogs : \A i \in DOMAIN c : c[i].stock = MaxStock}
RestockRows == {Serialize(c) : c \in RestockCatalogs}

EditRows == RestockRows \cup OddRows

\* The source after an edit at time t: deleted, unreadable, a sheet that
\* lacks a required column, or a sheet with all of them.
EditedFiles(t) ==
    {NoFile, CorruptFile(t)}
      \cup {[SheetFile(r, t) EXCEPT !.cols = c] : r \in EditRows, c \in BOOLEAN}

\* Somebody outside the program leaves f as the source.
ExternalEditTo(f) ==
    /\ edits < MaxEdits
    /\ edits' = edits + 1
    /\ clock' = clock + 1
    /\ file' = f
    /\ UNCHANGED <<data, last_modified, lock, backup, shopVars, pc, loc, histVars>>

\* Somebody outside the program edits, replaces or deletes the source.
ExternalEdit == \E f \in EditedFiles(clock + 1) : ExternalEditTo(f)

\* The source is deleted, made unreadable, or put back as first loaded.
LostOrRestored(t) == {NoFile, CorruptFile(t), SheetFile(Serialize(initStock), t)}

\* The source is lost or restored from outside.
SourceOutage == \E f \in LostOrRestored(clock + 1) : ExternalEditTo(f)

\* handle_reload_catalog calls loader.reload()
StartReload(w) ==
    /\ pc[w] = "idle"
    /\ pc' = [pc EXCEPT ![w] = "rl_lock"]
    /\ loc' = [loc EXCEPT ![w] = [Idle EXCEPT !.op = "reload"]]
    /\ UNCHANGED <<catalogVars, edits, shopVars, histVars>>

\* reload enters `with self.lock`.
ReloadAcquire(w) ==
    /\ pc[w] = "rl_lock"
    /\ lock = 0
    /\ lock' = w
    /\ pc' = [pc EXCEPT ![w] = "rl_load"]
    /\ UNCHANGED <<data, last_modified, file, backup, clock, edits, shopVars, loc, histVars>>

\* Mutant of LockExit: a reload that failed goes on holding the lock.
LockKeptOnFailure(l, failed) == IF failed THEN l ELSE 0

\* The lock after the `with self.lock` block of reload is left: free,
\* whether _load failed or not.
LockExit(l, failed) == 0

\* Whether an exception leaves reload(), given that one left _load: the
\* except clause of reload logs it and goes on.
ReloadRaises(raised) == FALSE

\* What handle_reload_catalog sends, given whether reload() raised.
ReloadAnswer(raised) == IF raised THEN "error" ELSE "updated"

\* Where auto_reload_catalog goes after loader.reload(): the try block
\* ended or the except clause logged the exception, and `while True` sleeps.
LoopAfter(raised) == "sleep"

\* reload() returns to its caller: handle_reload_catalog answers the user,
\* auto_reload_catalog goes round its loop; res keeps how the load went.
ReloadReturns(w, r) ==
    LET raised == ReloadRaises(r.raised)
    IN IF w = Loop
       THEN /\ pc' = [pc EXCEPT ![w] = LoopAfter(raised)]
            /\ loc' = [loc EXCEPT ![w].res = IF r.failed THEN "failed" ELSE "ok"]
       ELSE /\ pc' = [pc EXCEPT ![w] = "answer"]
            /\ loc' = [loc EXCEPT ![w].res = ReloadAnswer(raised)]

\* CatalogLoader.reload: _load under the lock, its exception swallowed.
Reload(w) ==
    /\ pc[w] = "rl_load"
    /\ LET r == Load(data, last_modified, file)
       IN /\ data' = r.data
          /\ last_modified' = r.last_modified
          /\ persisted' = IF r.failed THEN persisted ELSE r.data
          /\ lock' = LockExit(lock, r.failed)
          /\ ReloadReturns(w, r)
    /\ UNCHANGED <<file, backup, clock, edits, shopVars, calls, initStock,
                   dirtyRead, phantomRead>>

\* Mutant of LoopWake: after an iteration whose load failed the loop has ended.
LoopWakeUnlessFailed ==
    /\ pc[Loop] = "sleep"
    /\ loc[Loop].res # "failed"
    /\ pc' = [pc EXCEPT ![Loop] = "rl_lock"]
    /\ UNCHANGED <<catalogVars, edits, shopVars, loc, histVars>>

\* auto_reload_catalog: time.sleep(300) is over and loader.reload() is called.
LoopWake ==
    /\ pc[Loop] = "sleep"
    /\ pc' = [pc EXCEPT ![Loop] = "rl_lock"]
    /\ UNCHANGED <<catalogVars, edits, shopVars, loc, histVars>>

NextLoad ==
    \/ ExternalEdit
    \/ \E w \in Threads :
        \/ StartReload(w)
        \/ ReloadAcquire(w)
        \/ Reload(w)
        \/ Answer(w)

InitLoad == \E c \in RestockCatalogs : InitWith(c)

SpecLoad == InitLoad /\ [][NextLoad]_vars

\* --------------------------------------- the periodic reload and reduce_stock
\* The loop of auto_reload_catalog beside direct reduce_stock calls for one
\* unit on the worker threads, with the source lost and restored from
\* outside; SyncCalls calls and SyncEdits outages at most.
NextSync ==
    \/ edits < SyncEdits /\ SourceOutage
    \/ LoopWake
    \/ ReloadAcquire(Loop)
    \/ Reload(Loop)
    \/ \E w \in Threads :
        \/ BagCardinality(calls) + Cardinality({v \in Threads : pc[v] # "idle"}) < SyncCalls
              /\ \E i \in DOMAIN initStock : CallReduceStock(w, i, 1)
        \/ ReduceStockWrite(w)
        \/ ReduceStockSave(w, SaveOrFail)

\* The sleep of the loop ends, a thread inside the lock goes on, and a
\* thread waiting for a lock that is free again and again gets it.
FairSync ==
    /\ WF_vars(LoopWake)
    /\ SF_vars(ReloadAcquire(Loop))
    /\ WF_vars(Reload(Loop))
    /\ \A w \in Threads :
          /\ SF_vars(ReduceStockWrite(w))
          /\ WF_vars(ReduceStockSave(w, SaveOrFail))

SpecSync == InitShop /\ [][NextSync]_vars /\ FairSync

\* ------------------------------------------------------------------ cart
CartGet(c, i) == IF i \in DOMAIN c THEN c[i] ELSE 0
CartPut(c, i, n) == [j \in DOMAIN c \cup {i} |-> IF j = i THEN n ELSE c[j]]

\* The (item, quantity) pairs a loop over the cart visits.
CartLines(c) ==
    LET ids == SetToSortedSeq(DOMAIN c)
    IN [k \in 1..Len(ids) |-> [id |-> ids[k], qty |-> c[ids[k]]]]

\* The handler answers the customer's callback.
Replies(w, op, s, i, res) ==
    /\ pc' = [pc EXCEPT ![w] = "answer"]
    /\ loc' = [loc EXCEPT ![w] = [Idle EXCEPT !.op = op, !.sess = s, !.item = i, !.res = res]]

\* Mutant of AddCheck: the quantity in the cart is not compared with the stock.
AddCheckNoCeiling(d, c, i) ==
    IF i \notin DOMAIN d THEN "not_found"
    ELSE IF d[i].stock <= 0 THEN "out_of_stock"
    ELSE "ok"

\* handle_add_to_cart, its checks
AddCheck(d, c, i) ==
    IF i \notin DOMAIN d THEN "not_found"
    ELSE IF d[i].stock <= 0 THEN "out_of_stock"
    ELSE IF CartGet(c, i) >= d[i].stock THEN "exceeds"
    ELSE "ok"

\* handle_add_from_cart, its checks
AddFromCartCheck(d, c, i) ==
    IF i \notin DOMAIN d THEN "not_found"
    ELSE IF CartGet(c, i) >= d[i].stock THEN "exceeds"
    ELSE "ok"

\* cart[item_id] = current_in_cart + 1, when the checks let the add through
CartAfterAdd(c, i, chk) ==
    IF chk = "ok" THEN CartPut(c, i, CartGet(c, i) + 1) ELSE c

\* handle_add_to_cart, but for its answer
AddToCartDo(w, s, i) ==
    /\ pc[w] = "idle"
    /\ user_carts' = [user_carts EXCEPT
                        ![s] = CartAfterAdd(@, i, AddCheck(data, user_carts[s], i))]
    /\ ReadsStock(i)
    /\ UNCHANGED <<catalogVars, edits, user_orders, step, all_orders, order_counter,
                   calls, initStock, persisted, phantomRead>>

\* handle_add_to_cart in one step, its answer not kept
AddToCart(w, s, i) ==
    /\ AddToCartDo(w, s, i)
    /\ UNCHANGED <<pc, loc>>

\* handle_add_to_cart
handle_add_to_cart(w, s, i) ==
    /\ AddToCartDo(w, s, i)
    /\ Replies(w, "add", s, i, AddCheck(data, user_carts[s], i))

\* handle_add_from_cart, but for its answer
AddFromCartDo(w, s, i) ==
    /\ pc[w] = "idle"
    /\ user_carts' = [user_carts EXCEPT
                        ![s] = CartAfterAdd(@, i, AddFromCartCheck(data, user_carts[s], i))]
    /\ ReadsStock(i)
    /\ UNCHANGED <<catalogVars, edits, user_orders, step, all_orders, order_counter,
                   calls, initStock, persisted, phantomRead>>

\* handle_add_from_cart in one step, its answer not kept
AddFromCart(w, s, i) ==
    /\ AddFromCartDo(w, s, i)
    /\ UNCHANGED <<pc, loc>>

\* handle_add_from_cart
handle_add_from_cart(w, s, i) ==
    /\ AddFromCartDo(w, s, i)
    /\ Replies(w, "add_cart", s, i, AddFromCartCheck(data, user_carts[s], i))

\* del cart[item_id]
CartDel(c, i) == [j \in DOMAIN c \ {i} |-> c[j]]

\* handle_remove_from_cart, its check
RemoveCheck(c, i) == IF i \notin DOMAIN c THEN "not_in_cart" ELSE "ok"

\* Mutant of CartAfterRemove: a line that reaches zero stays in the cart.
CartAfterRemoveKeepsZero(c, i) ==
    IF i \notin DOMAIN c THEN c ELSE CartPut(c, i, c[i] - 1)

\* Mutant of CartAfterRemove: the line is dropped whatever its quantity.
CartAfterRemoveDropsLine(c, i) ==
    IF i \notin DOMAIN c THEN c ELSE CartDel(c, i)

\* cart[item_id] -= 1, and del cart[item_id] at zero
CartAfterRemove(c, i) ==
    IF i \notin DOMAIN c THEN c
    ELSE IF c[i] - 1 <= 0 THEN CartDel(c, i)
    ELSE CartPut(c, i, c[i] - 1)

\* handle_remove_from_cart, but for its answer
RemoveFromCartDo(w, s, i) ==
    /\ pc[w] = "idle"
    /\ user_carts' = [user_carts EXCEPT ![s] = CartAfterRemove(@, i)]
    /\ UNCHANGED <<catalogVars, edits, user_orders, step, all_orders, order_counter, histVars>>

\* handle_remove_from_cart in one step, its answer not kept
RemoveFromCart(w, s, i) ==
    /\ RemoveFromCartDo(w, s, i)
    /\ UNCHANGED <<pc, loc>>

\* handle_remove_from_cart
handle_remove_from_cart(w, s, i) ==
    /\ RemoveFromCartDo(w, s, i)
    /\ Replies(w, "remove", s, i, RemoveCheck(user_carts[s], i))

\* Mutant of CartsAfterClear: every session's cart is emptied.
CartsAfterClearAll(carts, s) == [t \in DOMAIN carts |-> <<>>]

\* user_carts[chat_id] = {}
CartsAfterClear(carts, s) == [carts EXCEPT ![s] = <<>>]

\* handle_clear_cart, but for its answer
ClearCartDo(w, s) ==
    /\ pc[w] = "idle"
    /\ user_carts' = CartsAfterClear(user_carts, s)
    /\ UNCHANGED <<catalogVars, edits, user_orders, step, all_orders, order_counter, histVars>>

\* handle_clear_cart in one step, its answer not kept
ClearCart(w, s) ==
    /\ ClearCartDo(w, s)
    /\ UNCHANGED <<pc, loc>>

\* handle_clear_cart
handle_clear_cart(w, s) ==
    /\ ClearCartDo(w, s)
    /\ Replies(w, "clear", s, 0, "cleared")

\* -------------------------------------------------------------- checkout
\* Mutant of CheckoutCheck: an empty cart is checked out too.
CheckoutCheckAny(c) == "started"

\* handle_checkout, its check
CheckoutCheck(c) == IF c = <<>> THEN "empty_cart" ELSE "started"

\* handle_checkout, but for its answer: the cart is copied and the phone
\* number asked for.  No checkout is started once n orders have been numbered.
CheckoutDo(w, s, n) ==
    /\ pc[w] = "idle"
    /\ order_counter <= n
    /\ IF CheckoutCheck(user_carts[s]) = "empty_cart"
       THEN UNCHANGED <<user_orders, step>>
       ELSE /\ user_orders' = [user_orders EXCEPT ![s] = [has |-> TRUE, cart |-> user_carts[s]]]
            /\ step' = [step EXCEPT ![s] = "phone"]
    /\ UNCHANGED <<catalogVars, edits, user_carts, all_orders, order_counter, histVars>>

\* handle_checkout in one step, its answer not kept
Checkout(w, s, n) ==
    /\ CheckoutDo(w, s, n)
    /\ UNCHANGED <<pc, loc>>

\* handle_checkout
handle_checkout(w, s, n) ==
    /\ CheckoutDo(w, s, n)
    /\ Replies(w, "checkout", s, 0, CheckoutCheck(user_carts[s]))

\* get_phone_number: a phone number too short is asked for again.
GetPhoneNumber(w, s, valid) ==
    /\ pc[w] = "idle"
    /\ step[s] = "phone"
    /\ step' = [step EXCEPT ![s] = IF ~valid THEN "phone"
                                   ELSE IF user_orders[s].has THEN "address" ELSE "none"]
    /\ UNCHANGED <<catalogVars, edits, user_carts, user_orders, all_orders, order_counter,
                   pc, loc, histVars>>

\* get_delivery_address, and finalize_order up to its loop over the cart
GetDeliveryAddress(w, s, valid) ==
    /\ pc[w] = "idle"
    /\ step[s] = "address"
    /\ IF ~valid
       THEN UNCHANGED <<step, pc, loc>>
       ELSE /\ step' = [step EXCEPT ![s] = "none"]
            /\ IF user_orders[s].has /\ user_orders[s].cart # <<>>
               THEN /\ pc' = [pc EXCEPT ![w] = "fo_line"]
                    /\ loc' = [loc EXCEPT ![w] = [Idle EXCEPT !.op = "finalize", !.sess = s,
                                                  !.todo = CartLines(user_orders[s].cart)]]
               ELSE UNCHANGED <<pc, loc>>
    /\ UNCHANGED <<catalogVars, edits, user_carts, user_orders, all_orders, order_counter,
                   histVars>>

\* Mutant of LineCheck: the quantity is not compared with the stock.
LineCheckNoStock(d, i, q) ==
    IF i \notin DOMAIN d THEN "not_found" ELSE "ok"

\* finalize_order, the checks of one cart line against the catalog
LineCheck(d, i, q) ==
    IF i \notin DOMAIN d THEN "not_found"
    ELSE IF d[i].stock < q THEN "insufficient"
    ELSE "ok"

\* finalize_order, one pass of its loop: the line is checked against the
\* catalog as it is now.
FinalizeLine(w) ==
    /\ pc[w] = "fo_line"
    /\ loc[w].todo # <<>>
    /\ LET l == Head(loc[w].todo)
           i == l.id
           q == l.qty
       IN /\ loc' = [loc EXCEPT ![w] =
                IF LineCheck(data, i, q) = "not_found"
                THEN [@ EXCEPT !.todo = Tail(@),
                               !.errors = Append(@, [id |-> i, kind |-> "not_found",
                                                     requested |-> q, available |-> 0])]
                ELSE IF LineCheck(data, i, q) = "insufficient"
                THEN [@ EXCEPT !.todo = Tail(@),
                               !.errors = Append(@, [id |-> i, kind |-> "insufficient",
                                                     requested |-> q, available |-> data[i].stock])]
                ELSE [@ EXCEPT !.todo = Tail(@),
                               !.total = @ + data[i].price * q,
                               !.items = Append(@, [id |-> i, quantity |-> q,
                                                    price |-> data[i].price,
                                                    cost |-> data[i].price * q,
                                                    stock |-> data[i].stock])]]
          /\ ReadsStock(i)
    /\ UNCHANGED <<catalogVars, edits, shopVars, pc, calls, initStock, persisted, phantomRead>>

\* Mutant of FinalizeCreate: a checkout without a valid line empties the cart.
FinalizeCreateClearsCart(w) ==
    /\ pc[w] = "fo_line"
    /\ loc[w].todo = <<>>
    /\ IF loc[w].items = <<>>
       THEN /\ pc' = [pc EXCEPT ![w] = "idle"]
            /\ loc' = [loc EXCEPT ![w] = Idle]
            /\ user_carts' = [user_carts EXCEPT ![loc[w].sess] = <<>>]
       ELSE /\ pc' = [pc EXCEPT ![w] = "fo_store"]
            /\ loc' = [loc EXCEPT ![w].oid = order_counter]
            /\ UNCHANGED user_carts
    /\ UNCHANGED <<catalogVars, edits, user_orders, step, all_orders, order_counter, histVars>>

\* finalize_order after the loop: it gives up when no line is valid, else
\* it reads order_counter.
FinalizeCreate(w) ==
    /\ pc[w] = "fo_line"
    /\ loc[w].todo = <<>>
    /\ IF loc[w].items = <<>>
       THEN /\ pc' = [pc EXCEPT ![w] = "idle"]
            /\ loc' = [loc EXCEPT ![w] = Idle]
       ELSE /\ pc' = [pc EXCEPT ![w] = "fo_store"]
            /\ loc' = [loc EXCEPT ![w].oid = order_counter]
    /\ UNCHANGED <<catalogVars, edits, shopVars, histVars>>

\* The catalog with the quantities of the order lines taken off the stock.
RECURSIVE Deducted(_, _)
Deducted(d, items) ==
    IF items = <<>> THEN d
    ELSE Deducted([d EXCEPT ![Head(items).id].stock = @ - Head(items).quantity], Tail(items))

\* Mutant of FinalizeStore: the stock is deducted when the order is created.
FinalizeStoreDeducts(w) ==
    /\ pc[w] = "fo_store"
    /\ order_counter' = order_counter + 1
    /\ all_orders' = [x \in DOMAIN all_orders \cup {loc[w].oid} |->
                        IF x = loc[w].oid
                        THEN [chat_id |-> loc[w].sess, items |-> loc[w].items,
                              total |-> loc[w].total, errors |-> loc[w].errors,
                              status |-> "pending"]
                        ELSE all_orders[x]]
    /\ user_carts' = [user_carts EXCEPT ![loc[w].sess] = <<>>]
    /\ user_orders' = [user_orders EXCEPT ![loc[w].sess] = [has |-> FALSE, cart |-> <<>>]]
    /\ pc' = [pc EXCEPT ![w] = "idle"]
    /\ loc' = [loc EXCEPT ![w] = Idle]
    /\ data' = Deducted(data, loc[w].items)
    /\ UNCHANGED <<last_modified, lock, file, backup, clock, edits, step, histVars>>

\* Mutant of PutOrder: the order is stored without its list of errors.
PutOrderNoErrors(orders, o, rec) ==
    [x \in DOMAIN orders \cup {o} |-> IF x = o THEN [rec EXCEPT !.errors = <<>>] ELSE orders[x]]

\* all_orders[order_id] = {...}
PutOrder(orders, o, rec) ==
    [x \in DOMAIN orders \cup {o} |-> IF x = o THEN rec ELSE orders[x]]

\* finalize_order: the counter is incremented, the order stored, the cart emptied.
FinalizeStore(w) ==
    /\ pc[w] = "fo_store"
    /\ order_counter' = order_counter + 1
    /\ all_orders' = PutOrder(all_orders, loc[w].oid,
                              [chat_id |-> loc[w].sess, items |-> loc[w].items,
                               total |-> loc[w].total, errors |-> loc[w].errors,
                               status |-> "pending"])
    /\ user_carts' = [user_carts EXCEPT ![loc[w].sess] = <<>>]
    /\ user_orders' = [user_orders EXCEPT ![loc[w].sess] = NoPending]
    /\ pc' = [pc EXCEPT ![w] = "idle"]
    /\ loc' = [loc EXCEPT ![w] = Idle]
    /\ UNCHANGED <<catalogVars, edits, step, histVars>>

\* ---------------------------------------------------------------- orders
OrderIds == 1..(MaxOrders + 1)

\* Mutant of WriteStatus: a status change empties the lines of the order.
WriteStatusDropsLines(orders, o, s, st) ==
    IF o \in DOMAIN orders /\ orders[o].chat_id = s
    THEN [orders EXCEPT ![o].status = st, ![o].items = <<>>]
    ELSE orders

\* order['status'] = st, where order is the object the handler looked up
\* (a later order stored under the same id is another object).
WriteStatus(orders, o, s, st) ==
    IF o \in DOMAIN orders /\ orders[o].chat_id = s
    THEN [orders EXCEPT ![o].status = st]
    ELSE orders

\* The handler answers the seller's callback.
Answers(w, op, o, res) ==
    /\ pc' = [pc EXCEPT ![w] = "answer"]
    /\ loc' = [loc EXCEPT ![w] = [Idle EXCEPT !.op = op, !.oid = o, !.res = res]]

\* Mutant of ConfirmAllowed: a cancelled order is confirmed as well.
ConfirmAllowedCancelled(order) == order.status \in {"pending", "cancelled"}

\* Whether handle_confirm_order goes on, for an order it found
ConfirmAllowed(order) == order.status = "pending"

\* handle_confirm_order up to its checks
ConfirmCheck(w, o) ==
    /\ pc[w] = "idle"
    /\ IF o \notin DOMAIN all_orders THEN Answers(w, "confirm", o, "not_found")
       ELSE IF ~ConfirmAllowed(all_orders[o]) THEN Answers(w, "confirm", o, "invalid")
       ELSE /\ pc' = [pc EXCEPT ![w] = "cf_set"]
            /\ loc' = [loc EXCEPT ![w] = [Idle EXCEPT !.op = "confirm", !.oid = o,
                                          !.sess = all_orders[o].chat_id]]
    /\ UNCHANGED <<catalogVars, edits, shopVars, histVars>>

\* handle_confirm_order sets the status.
ConfirmSet(w) ==
    /\ pc[w] = "cf_set"
    /\ all_orders' = WriteStatus(all_orders, loc[w].oid, loc[w].sess, "confirmed")
    /\ Answers(w, "confirm", loc[w].oid, "confirmed")
    /\ UNCHANGED <<catalogVars, edits, user_carts, user_orders, step, order_counter, histVars>>

\* Mutant of DeliverAllowed: an order already delivered is delivered again.
DeliverAllowedAgain(order) == order.status \in {"confirmed", "delivered"}

\* Mutant of DeliverAllowed: an order not yet confirmed is delivered.
DeliverAllowedPending(order) == order.status \in {"pending", "confirmed"}

\* Whether handle_deliver_order goes on, for an order it found
DeliverAllowed(order) == order.status = "confirmed"

\* handle_deliver_order up to its checks
DeliverCheck(w, o) ==
    /\ pc[w] = "idle"
    /\ IF o \notin DOMAIN all_orders THEN Answers(w, "deliver", o, "not_found")
       ELSE IF ~DeliverAllowed(all_orders[o]) THEN Answers(w, "deliver", o, "invalid")
       ELSE /\ pc' = [pc EXCEPT ![w] = "dl_line"]
            /\ loc' = [loc EXCEPT ![w] =
                  [Idle EXCEPT !.op = "deliver", !.oid = o, !.sess = all_orders[o].chat_id,
                               !.todo = [k \in 1..Len(all_orders[o].items) |->
                                           [id |-> all_orders[o].items[k].id,
                                            qty |-> all_orders[o].items[k].quantity]]]]
    /\ UNCHANGED <<catalogVars, edits, shopVars, histVars>>

\* handle_deliver_order: reduce_stock is called for the next line, its
\* result ignored; after the last line the status is set.
DeliverLine(w) ==
    /\ pc[w] = "dl_line"
    /\ IF loc[w].todo # <<>>
       THEN /\ pc' = [pc EXCEPT ![w] = "rs_lock"]
            /\ loc' = [loc EXCEPT ![w].item = Head(loc[w].todo).id,
                                  ![w].qty = Head(loc[w].todo).qty]
            /\ UNCHANGED all_orders
       ELSE /\ all_orders' = WriteStatus(all_orders, loc[w].oid, loc[w].sess, "delivered")
            /\ Answers(w, "deliver", loc[w].oid, "delivered")
    /\ UNCHANGED <<catalogVars, edits, user_carts, user_orders, step, order_counter, histVars>>

\* handle_cancel_order
CancelOrder(w, o) ==
    /\ pc[w] = "idle"
    /\ IF o \notin DOMAIN all_orders
       THEN /\ Answers(w, "cancel", o, "not_found")
            /\ UNCHANGED all_orders
       ELSE /\ all_orders' = [all_orders EXCEPT ![o].status = "cancelled"]
            /\ Answers(w, "cancel", o, "cancelled")
    /\ UNCHANGED <<catalogVars, edits, user_carts, user_orders, step, order_counter, histVars>>

\* No other thread is inside a handler.
Alone(w) == \A v \in Threads \ {w} : pc[v] = "idle"

\* The customer of the single-customer specifications.
Shopper == {"A"}

\* One customer; her checkout and the seller's confirm run alone, while the
\* seller's deliver and cancel callbacks and the cart's reads of the catalog
\* run on the worker threads in any interleaving.
Next ==
    \E w \in Threads :
        \/ \E s \in Shopper, i \in ItemIds : AddToCart(w, s, i)
        \/ \E s \in Shopper, i \in ItemIds : AddFromCart(w, s, i)
        \/ \E s \in Shopper, i \in ItemIds : RemoveFromCart(w, s, i)
        \/ \E s \in Shopper : ClearCart(w, s)
        \/ Alone(w) /\ \E s \in Shopper : Checkout(w, s, MaxOrders)
        \/ Alone(w) /\ \E s \in Shopper, valid \in BOOLEAN : GetPhoneNumber(w, s, valid)
        \/ Alone(w) /\ \E s \in Shopper, valid \in BOOLEAN : GetDeliveryAddress(w, s, valid)
        \/ Alone(w) /\ FinalizeLine(w)
        \/ Alone(w) /\ FinalizeCreate(w)
        \/ Alone(w) /\ FinalizeStore(w)
        \/ Alone(w) /\ \E o \in OrderIds : ConfirmCheck(w, o)
        \/ Alone(w) /\ ConfirmSet(w)
        \/ \E o \in OrderIds : DeliverCheck(w, o)
        \/ DeliverLine(w)
        \/ ReduceStockWrite(w)
        \/ ReduceStockSave(w, SaveOrFail)
        \/ \E o \in OrderIds : CancelOrder(w, o)
        \/ Answer(w)

Spec == InitShop /\ [][Next]_vars

\* The handlers run one after the other: a thread takes a step only while
\* every other thread is idle.
NextSeq ==
    \E w \in Threads :
        \/ Alone(w) /\ \E s \in Shopper, i \in ItemIds : AddToCart(w, s, i)
        \/ Alone(w) /\ \E s \in Shopper, i \in ItemIds : AddFromCart(w, s, i)
        \/ Alone(w) /\ \E s \in Shopper : ClearCart(w, s)
        \/ Alone(w) /\ \E s \in Shopper : Checkout(w, s, SeqOrders)
        \/ Alone(w) /\ \E s \in Shopper, valid \in BOOLEAN : GetPhoneNumber(w, s, valid)
        \/ Alone(w) /\ \E s \in Shopper, valid \in BOOLEAN : GetDeliveryAddress(w, s, valid)
        \/ Alone(w) /\ FinalizeLine(w)
        \/ Alone(w) /\ FinalizeCreate(w)
        \/ Alone(w) /\ FinalizeStore(w)
        \/ Alone(w) /\ \E o \in OrderIds : ConfirmCheck(w, o)
        \/ Alone(w) /\ ConfirmSet(w)
        \/ Alone(w) /\ \E o \in OrderIds : DeliverCheck(w, o)
        \/ Alone(w) /\ DeliverLine(w)
        \/ Alone(w) /\ ReduceStockWrite(w)
        \/ Alone(w) /\ ReduceStockSave(w, SaveOrFail)
        \/ Alone(w) /\ \E o \in OrderIds : CancelOrder(w, o)
        \/ Alone(w) /\ Answer(w)

SpecSeq == InitShop /\ [][NextSeq]_vars

\* Every customer, adding to the cart and checking out on the worker
\* threads in any interleaving; the seller does nothing.
NextCheckout ==
    \E w \in Threads :
        \/ \E s \in Sessions, i \in ItemIds : AddToCart(w, s, i)
        \/ \E s \in Sessions, i \in ItemIds : AddFromCart(w, s, i)
        \/ \E s \in Sessions, i \in ItemIds : RemoveFromCart(w, s, i)
        \/ \E s \in Sessions : ClearCart(w, s)
        \/ \E s \in Sessions : Checkout(w, s, MaxOrders)
        \/ \E s \in Sessions, valid \in BOOLEAN : GetPhoneNumber(w, s, valid)
        \/ \E s \in Sessions, valid \in BOOLEAN : GetDeliveryAddress(w, s, valid)
        \/ FinalizeLine(w)
        \/ FinalizeCreate(w)
        \/ FinalizeStore(w)

SpecCheckout == InitShop /\ [][NextCheckout]_vars

\* ------------------------------------------- checkout on a changing catalog
OrderEdits == 1
EditPrices == {7}

\* The sheet after the shop keeper's edit: items are delisted, the ones
\* left are repriced and one unit of each is in stock.
RepricedFiles(t) ==
    {SheetFile(Serialize(c), t) :
        c \in UNION {[S -> [price : EditPrices, stock : {1}]] : S \in SUBSET ItemIds}}

\* The shop opens with two units of every item.
InitOrder == \E c \in [ItemIds -> [price : Prices, stock : {2}]] : InitWith(c)

\* One customer fills the cart and checks out while the sheet is edited and
\* reloaded; the handlers run one after the other.
NextOrder ==
    \/ edits < OrderEdits /\ \E f \in RepricedFiles(clock + 1) : ExternalEditTo(f)
    \/ \E w \in Threads :
        \/ Alone(w) /\ \E s \in Shopper, i \in ItemIds : AddToCart(w, s, i)
        \/ Alone(w) /\ \E s \in Shopper : Checkout(w, s, SeqOrders)
        \/ Alone(w) /\ \E s \in Shopper, valid \in BOOLEAN : GetPhoneNumber(w, s, valid)
        \/ Alone(w) /\ \E s \in Shopper, valid \in BOOLEAN : GetDeliveryAddress(w, s, valid)
        \/ Alone(w) /\ FinalizeLine(w)
        \/ Alone(w) /\ FinalizeCreate(w)
        \/ Alone(w) /\ FinalizeStore(w)
        \/ Alone(w) /\ StartReload(w)
        \/ Alone(w) /\ ReloadAcquire(w)
        \/ Alone(w) /\ Reload(w)
        \/ Alone(w) /\ Answer(w)

SpecOrder == InitOrder /\ [][NextOrder]_vars

\* ------------------------------------------ orders on a changing catalog
LedgerEdits == 1

\* The sheet after the shop keeper's edit: the item is delisted, or repriced
\* with one unit in stock.
LedgerFiles(t) ==
    {SheetFile(Serialize(c), t) :
        c \in UNION {[S -> [price : EditPrices, stock : {1}]] : S \in SUBSET {1}}}

\* The shop opens with two units of item 1.
InitLedger == \E c \in [{1} -> [price : Prices, stock : {2}]] : InitWith(c)

\* One customer and the seller, the handlers one after the other, while the
\* sheet is edited and reloaded: the cart, the checkout, the status changes
\* of the orders, the stock deductions of deliver and the reloads.
NextLedger ==
    \/ edits < LedgerEdits /\ \E f \in LedgerFiles(clock + 1) : ExternalEditTo(f)
    \/ \E w \in {1} :
        \/ Alone(w) /\ \E s \in Shopper, i \in ItemIds : AddToCart(w, s, i)
        \/ Alone(w) /\ \E s \in Shopper : ClearCart(w, s)
        \/ Alone(w) /\ \E s \in Shopper : Checkout(w, s, SeqOrders)
        \/ Alone(w) /\ \E s \in Shopper, valid \in BOOLEAN : GetPhoneNumber(w, s, valid)
        \/ Alone(w) /\ \E s \in Shopper, valid \in BOOLEAN : GetDeliveryAddress(w, s, valid)
        \/ Alone(w) /\ FinalizeLine(w)
        \/ Alone(w) /\ FinalizeCreate(w)
        \/ Alone(w) /\ FinalizeStore(w)
        \/ Alone(w) /\ \E o \in OrderIds : ConfirmCheck(w, o)
        \/ Alone(w) /\ ConfirmSet(w)
        \/ Alone(w) /\ \E o \in OrderIds : DeliverCheck(w, o)
        \/ Alone(w) /\ DeliverLine(w)
        \/ Alone(w) /\ ReduceStockWrite(w)
        \/ Alone(w) /\ ReduceStockSave(w, SaveOrFail)
        \/ Alone(w) /\ \E o \in OrderIds : CancelOrder(w, o)
        \/ Alone(w) /\ StartReload(w)
        \/ Alone(w) /\ ReloadAcquire(w)
        \/ Alone(w) /\ Reload(w)
        \/ Alone(w) /\ Answer(w)

SpecLedger == InitLedger /\ [][NextLedger]_vars

\* ------------------------------------------------------------ the carts
CartOrders == 1

\* The catalogs the shop may hold: two units of item 1, and item 2 not
\* listed or listed with the stock of the sheet, taken as it is, a negative
\* one too.
CartCatalogs ==
    {[i \in {1} |-> [price |-> 5, stock |-> 2]]} \cup
    {[i \in ItemIds |-> [price |-> 5, stock |-> IF i = 1 THEN 2 ELSE n]] : n \in (-1)..1}

InitCart == \E c \in CartCatalogs : InitWith(c)

\* Every customer's cart handlers and one customer's checkout, with their
\* answers, one handler after the other.
NextCart ==
    \E w \in Threads :
        \/ Alone(w) /\ \E s \in Sessions, i \in ItemIds : handle_add_to_cart(w, s, i)
        \/ Alone(w) /\ \E s \in Sessions, i \in ItemIds : handle_add_from_cart(w, s, i)
        \/ Alone(w) /\ \E s \in Sessions, i \in ItemIds : handle_remove_from_cart(w, s, i)
        \/ Alone(w) /\ \E s \in Sessions : handle_clear_cart(w, s)
        \/ Alone(w) /\ \E s \in Shopper : handle_checkout(w, s, CartOrders)
        \/ Alone(w) /\ \E s \in Shopper, valid \in BOOLEAN : GetPhoneNumber(w, s, valid)
        \/ Alone(w) /\ \E s \in Shopper, valid \in BOOLEAN : GetDeliveryAddress(w, s, valid)
        \/ Alone(w) /\ FinalizeLine(w)
        \/ Alone(w) /\ FinalizeCreate(w)
        \/ Alone(w) /\ FinalizeStore(w)
        \/ Alone(w) /\ Answer(w)

SpecCart == InitCart /\ [][NextCart]_vars

\* ---------------------------------------------- saves that may go wrong
\* The faults of a save whose restore from the backup, when it is tried,
\* works.
SaveFaults == {flt \in Faults : ~flt.restore}

\* reduce_stock called for one unit on the worker threads, every save
\* meeting any of these faults.
NextSave ==
    \E w \in Threads :
        \/ \E i \in ItemIds : CallReduceStock(w, i, 1)
        \/ ReduceStockWrite(w)
        \/ ReduceStockSave(w, SaveFaults)

SpecSave == InitShop /\ [][NextSave]_vars

\* ------------------------------------------------- orders of several lines
\* One customer orders from a shop that has two units of every item, the
\* seller confirms and delivers; the handlers run one after the other on one
\* worker, and a save of reduce_stock may fail.
NextDeliver ==
    \E w \in {1} :
        \/ \E s \in Shopper, i \in ItemIds : AddToCart(w, s, i)
        \/ \E s \in Shopper : Checkout(w, s, SeqOrders)
        \/ \E s \in Shopper, valid \in BOOLEAN : GetPhoneNumber(w, s, valid)
        \/ \E s \in Shopper, valid \in BOOLEAN : GetDeliveryAddress(w, s, valid)
        \/ FinalizeLine(w)
        \/ FinalizeCreate(w)
        \/ FinalizeStore(w)
        \/ \E o \in OrderIds : ConfirmCheck(w, o)
        \/ ConfirmSet(w)
        \/ \E o \in OrderIds : DeliverCheck(w, o)
        \/ DeliverLine(w)
        \/ ReduceStockWrite(w)
        \/ ReduceStockSave(w, SaveOrFail)
        \/ Answer(w)

SpecDeliver == InitOrder /\ [][NextDeliver]_vars

\* ------------------------------------------------- the seller's callbacks
\* One customer checks out, her handlers running alone; the seller's confirm
\* and cancel callbacks run on the worker threads in any interleaving.
NextConfirm ==
    \E w \in Threads :
        \/ Alone(w) /\ \E s \in Shopper, i \in ItemIds : AddToCart(w, s, i)
        \/ Alone(w) /\ \E s \in Shopper : Checkout(w, s, SeqOrders)
        \/ Alone(w) /\ \E s \in Shopper, valid \in BOOLEAN : GetPhoneNumber(w, s, valid)
        \/ Alone(w) /\ \E s \in Shopper, valid \in BOOLEAN : GetDeliveryAddress(w, s, valid)
        \/ Alone(w) /\ FinalizeLine(w)
        \/ Alone(w) /\ FinalizeCreate(w)
        \/ Alone(w) /\ FinalizeStore(w)
        \/ \E o \in OrderIds : ConfirmCheck(w, o)
        \/ ConfirmSet(w)
        \/ \E o \in OrderIds : CancelOrder(w, o)
        \/ Answer(w)

SpecConfirm == InitShop /\ [][NextConfirm]_vars

\* ---------------------------------------------------------------- claims
\* The finished reduce_stock calls for item i, and the successful ones.
RECURSIVE CountCalls(_, _, _)
CountCalls(S, i, ok) ==
    IF S = {} THEN 0
    ELSE LET e == CHOOSE x \in S : TRUE
         IN (IF e.item = i /\ (~ok \/ e.res = "ok") THEN CopiesIn(e, calls) ELSE 0)
            + CountCalls(S \ {e}, i, ok)

NumCalls(i) == CountCalls(BagToSet(calls), i, FALSE)
OkCalls(i) == CountCalls(BagToSet(calls), i, TRUE)
UnitCallsOnly == \A e \in BagToSet(calls) : e.qty = 1
NoPersistFailure == \A e \in BagToSet(calls) : e.res # "persist"

\* The units of item i that successful reduce_stock calls took.
RECURSIVE OkQtyIn(_, _)
OkQtyIn(S, i) ==
    IF S = {} THEN 0
    ELSE LET e == CHOOSE x \in S : TRUE
         IN (IF e.item = i /\ e.res = "ok" THEN e.qty * CopiesIn(e, calls) ELSE 0)
            + OkQtyIn(S \ {e}, i)

OkQty(i) == OkQtyIn(BagToSet(calls), i)

\* The reduce_stock calls deliver made for order o's line of item i.
CallsFor(o, i) ==
    {e \in BagToSet(calls) : e.by = <<o, all_orders[o].chat_id>> /\ e.item = i}
Attempts(o, i) == CountCalls(CallsFor(o, i), i, FALSE)
Deductions(o, i) == CountCalls(CallsFor(o, i), i, TRUE)

LineIds(o) == {all_orders[o].items[k].id : k \in 1..Len(all_orders[o].items)}
LineQty(o, i) ==
    IF i \in LineIds(o)
    THEN all_orders[o].items[CHOOSE k \in 1..Len(all_orders[o].items) :
                               all_orders[o].items[k].id = i].quantity
    ELSE 0

RECURSIVE DeliveredIn(_, _)
DeliveredIn(S, i) ==
    IF S = {} THEN 0
    ELSE LET o == CHOOSE x \in S : TRUE
         IN (IF all_orders[o].status = "delivered" THEN LineQty(o, i) ELSE 0)
            + DeliveredIn(S \ {o}, i)

DeliveredQty(i) == DeliveredIn(DOMAIN all_orders, i)

Terminal == {"delivered", "cancelled"}

\* C1: for every item, the quantities of the delivered orders add up to at
\* most the stock the catalog was loaded with (no reload, no edit).
C1_NeverOversold ==
    \A i \in DOMAIN initStock : DeliveredQty(i) <= initStock[i].stock

\* C2: an order is delivered only if reduce_stock succeeded for each of its
\* lines; a deliver whose deduction fails leaves the order confirmed.
C2_DeliveredMeansDeducted ==
    \A o \in DOMAIN all_orders :
        all_orders[o].status = "delivered" =>
            \A i \in LineIds(o) : Deductions(o, i) >= 1

\* C3: the status of a delivered or cancelled order never changes again.
C3_TerminalAbsorbing ==
    [][\A o \in DOMAIN all_orders :
          (/\ all_orders[o].status \in Terminal
           /\ o \in DOMAIN all_orders'
           /\ all_orders'[o].chat_id = all_orders[o].chat_id)
          => all_orders'[o].status = all_orders[o].status]_vars

C5_ConcurrentDeliverOnce ==
    \A o \in DOMAIN all_orders : \A i \in LineIds(o) : Deductions(o, i) <= 1

\* C6: of an item loaded with stock 1 and never delivered, two customers'
\* orders do not both hold a valid line.
C6_LastUnitOneOrder ==
    \A i \in DOMAIN initStock :
        initStock[i].stock = 1 =>
            ~ \E o1, o2 \in DOMAIN all_orders :
                /\ all_orders[o1].chat_id # all_orders[o2].chat_id
                /\ LineQty(o1, i) >= 1
                /\ LineQty(o2, i) >= 1

\* C7: starting from non-negative stock, no interleaving of reduce_stock
\* calls makes a stock negative, and when every call asked for one unit and
\* every save succeeded, exactly min(N, S) of the N calls for an item with
\* stock S succeeded and the stock went down by that number.
C7_ReduceStockExact ==
    /\ \A i \in DOMAIN data : data[i].stock >= 0
    /\ (AllIdle /\ UnitCallsOnly /\ NoPersistFailure) =>
          \A i \in DOMAIN initStock :
              /\ OkCalls(i) = Min(NumCalls(i), initStock[i].stock)
              /\ data[i].stock = initStock[i].stock - OkCalls(i)

\* C7 witness: more one-unit calls than stock, all finished, saves succeeding.
C7_Witness ==
    /\ AllIdle /\ UnitCallsOnly /\ NoPersistFailure
    /\ \E i \in DOMAIN initStock :
          initStock[i].stock >= 1 /\ NumCalls(i) > initStock[i].stock

\* C8: whenever the lock is free the catalog in memory is the one last
\* persisted: a reduce_stock whose save failed has put the stock back.
C8_RollbackOnPersistFailure ==
    lock = 0 => data = persisted

\* C8 witness: a call has failed on its save after another call succeeded.
C8_Witness ==
    /\ lock = 0
    /\ \E e \in BagToSet(calls) : e.res = "persist"
    /\ \E e \in BagToSet(calls) : e.res = "ok"

\* C9: no handler reads a stock that reduce_stock wrote in memory and then
\* rolled back.
C9_NoPhantomRead == ~phantomRead

\* The source is missing, unreadable or lacks a required column.
SourceBroken(f) == ~f.exists \/ ~f.readable \/ ~f.cols

\* C10: a reload of a missing or unreadable source, or of one that lacks a
\* required column, leaves a non-empty catalog as it was.
C10_FailedReloadKeepsCatalog ==
    [][\A w \in Threads :
          (/\ pc[w] = "rl_load" /\ pc'[w] = "answer"
           /\ data # <<>>
           /\ SourceBroken(file))
          => data' = data]_vars

\* C11: a user-triggered reload of a missing source, or of a source that
\* lacks a required column, is answered with an error and not with the
\* message that the catalog was updated.
C11_FailedReloadSurfacesError ==
    [][\A w \in Threads :
          (/\ pc[w] = "rl_load" /\ pc'[w] = "answer"
           /\ (~file.exists \/ (file.readable /\ ~file.cols)))
          => loc'[w].res = "error"]_vars

\* The source can be read and no valid row is left of it: the sheet has no
\* rows, or every row is dropped.
ZeroValidRows(f) ==
    /\ f.exists /\ f.readable
    /\ f.rows = <<>> \/ (f.cols /\ ParseRows(f.rows) = <<>>)

\* C12: a reload that finds zero valid rows in the source leaves a non-empty
\* catalog as it was.
C12_ZeroRowsKeepCatalog ==
    [][\A w \in Threads :
          (/\ pc[w] = "rl_load" /\ pc'[w] = "answer"
           /\ data # <<>>
           /\ ZeroValidRows(file))
          => data' = data]_vars

\* A call waits for loader.lock; a call is inside its critical section.
Waiting(w) == pc[w] \in {"rl_lock", "rs_lock"}
InCritical(w) == pc[w] \in {"rl_load", "rs_save"}

C14_LoopSurvivesFailure ==
    /\ [](pc[Loop] \in {"sleep", "rl_lock", "rl_load"})
    /\ (pc[Loop] = "sleep" /\ loc[Loop].res = "failed") ~> (pc[Loop] = "rl_load")

\* C14 witness: the loop reloads in the iteration after one whose load failed.
C14_Witness ==
    pc[Loop] = "rl_load" /\ loc[Loop].res = "failed"

\* A thread has just run the checks of the handler op and answers res.
Rejects(w, op) ==
    /\ pc[w] = "idle" /\ pc'[w] = "answer"
    /\ loc'[w].op = op

\* C15: with the handlers run one after the other, confirm sets an order to
\* 'confirmed' only from 'pending'; for an order in another status it
\* answers that the transition is invalid, for an unknown id that the order
\* is not found, and in both cases no order changes.
C15_ConfirmOnlyFromPending ==
    [][/\ \A o \in DOMAIN all_orders :
             (all_orders'[o].status = "confirmed" /\ all_orders[o].status # "confirmed")
             => all_orders[o].status = "pending"
       /\ \A w \in Threads :
             /\ (pc[w] = "idle" /\ pc'[w] = "cf_set")
                => all_orders[loc'[w].oid].status = "pending"
             /\ Rejects(w, "confirm") =>
                   /\ all_orders' = all_orders
                   /\ IF loc'[w].oid \in DOMAIN all_orders
                      THEN /\ all_orders[loc'[w].oid].status # "pending"
                           /\ loc'[w].res = "invalid"
                      ELSE loc'[w].res = "not_found"]_vars

\* C15 witness: confirm has been rejected for an order that is cancelled or
\* delivered, which kept its status.
C15_Witness ==
    \E w \in Threads :
        /\ pc[w] = "answer" /\ loc[w].op = "confirm" /\ loc[w].res = "invalid"
        /\ loc[w].oid \in DOMAIN all_orders
        /\ all_orders[loc[w].oid].status \in {"cancelled", "delivered"}

\* C16: with the handlers run one after the other, deliver goes on only for
\* a 'confirmed' order; for an order that is pending, delivered or
\* cancelled, and for an unknown id, it is rejected, no order changes and no
\* stock changes, and only a confirmed order becomes delivered.
C16_DeliverOnlyFromConfirmed ==
    [][/\ \A o \in DOMAIN all_orders :
             (all_orders'[o].status = "delivered" /\ all_orders[o].status # "delivered")
             => all_orders[o].status = "confirmed"
       /\ \A w \in Threads :
             /\ (pc[w] = "idle" /\ pc'[w] = "dl_line")
                => all_orders[loc'[w].oid].status = "confirmed"
             /\ Rejects(w, "deliver") =>
                   /\ all_orders' = all_orders
                   /\ data' = data
                   /\ calls' = calls
                   /\ IF loc'[w].oid \in DOMAIN all_orders
                      THEN /\ all_orders[loc'[w].oid].status # "confirmed"
                           /\ loc'[w].res = "invalid"
                      ELSE loc'[w].res = "not_found"]_vars

\* C16 witness: deliver has been rejected for an order that is pending or
\* cancelled, with the stock as loaded.
C16_Witness ==
    \E w \in Threads :
        /\ pc[w] = "answer" /\ loc[w].op = "deliver" /\ loc[w].res = "invalid"
        /\ loc[w].oid \in DOMAIN all_orders
        /\ all_orders[loc[w].oid].status \in {"pending", "cancelled"}
        /\ data = initStock

Finalizing == {w \in Threads : pc[w] \in {"fo_line", "fo_store"}}

\* The cart lines finalize_order has looked at so far.
LinesDone(w) ==
    LET all == CartLines(user_orders[loc[w].sess].cart)
    IN SubSeq(all, 1, Len(all) - Len(loc[w].todo))

SeqIds(q) == {q[k].id : k \in 1..Len(q)}

\* C18: with the handlers run one after the other, inside finalize_order
\* every line placed in the order is an item of the catalog as it is now,
\* with a quantity within its stock and its price and stock copied; every
\* error is either a 'not found' for an id the catalog does not hold or an
\* 'insufficient' with the requested quantity above the stock and the stock
\* as the available quantity; and every cart line looked at is one or the other.
C18_LinesValidatedNow ==
    \A w \in Finalizing :
        /\ \A k \in 1..Len(loc[w].items) :
              LET it == loc[w].items[k]
              IN /\ it.id \in DOMAIN data
                 /\ it.quantity <= data[it.id].stock
                 /\ it.price = data[it.id].price
                 /\ it.stock = data[it.id].stock
                 /\ it.cost = data[it.id].price * it.quantity
        /\ \A k \in 1..Len(loc[w].errors) :
              LET er == loc[w].errors[k]
              IN IF er.kind = "not_found" THEN er.id \notin DOMAIN data
                 ELSE /\ er.kind = "insufficient"
                      /\ er.id \in DOMAIN data
                      /\ er.requested > data[er.id].stock
                      /\ er.available = data[er.id].stock
        /\ \A k \in 1..Len(LinesDone(w)) :
              LET l == LinesDone(w)[k]
              IN \/ \E j \in 1..Len(loc[w].items) :
                        loc[w].items[j].id = l.id /\ loc[w].items[j].quantity = l.qty
                 \/ \E j \in 1..Len(loc[w].errors) :
                        loc[w].errors[j].id = l.id /\ loc[w].errors[j].requested = l.qty
        /\ SeqIds(loc[w].items) \cap SeqIds(loc[w].errors) = {}

\* C18 witness: the order about to be stored holds a line at the new price,
\* and its errors a line not found and a line above the stock.
C18_Witness ==
    \E w \in Threads :
        /\ pc[w] = "fo_store"
        /\ \E k \in 1..Len(loc[w].items) : loc[w].items[k].price \in EditPrices
        /\ \E k \in 1..Len(loc[w].errors) : loc[w].errors[k].kind \in {"not_found", "insufficient"}

\* C19: with the handlers run one after the other, a finalize_order that has
\* found no valid line leaves the orders, the order counter and the cart as
\* they are, and ends without an order when no line of the cart is valid.
C19_NoValidItemsKeepsCart ==
    [][\A w \in Threads :
          (pc[w] = "fo_line" /\ loc[w].items = <<>>) =>
              /\ all_orders' = all_orders
              /\ order_counter' = order_counter
              /\ user_carts' = user_carts
              /\ (loc[w].todo = <<>> /\ pc'[w] # pc[w]) => pc'[w] = "idle"]_vars

\* C19 witness: a checkout has ended with every line in error: no order
\* exists, the counter is 1 and the cart is the one that was checked out.
C19_Witness ==
    /\ AllIdle
    /\ all_orders = <<>> /\ order_counter = 1
    /\ \E s \in Sessions :
          /\ step[s] = "none"
          /\ user_orders[s].has
          /\ user_carts[s] = user_orders[s].cart
          /\ user_carts[s] # <<>>

\* The items of cart c whose line is valid in catalog d.
ValidIds(c, d) == {i \in DOMAIN c : i \in DOMAIN d /\ c[i] <= d[i].stock}

\* C20: with the handlers run one after the other, a finalize_order whose
\* cart has a valid line stores exactly one new order: its status is
\* 'pending', its items are the valid lines of the cart with their
\* quantities, its errors hold one entry for each other line, the orders
\* already stored are untouched and the session's cart is empty.
C20_OrderFromValidLines ==
    [][\A w \in Threads :
          LET s == loc[w].sess
              o == loc[w].oid
              cart == user_orders[s].cart
              valid == ValidIds(cart, data)
          IN /\ (pc[w] = "fo_line" /\ loc[w].todo = <<>> /\ valid # {} /\ pc'[w] # pc[w])
                => pc'[w] = "fo_store"
             /\ (pc[w] = "fo_store" /\ pc'[w] = "idle") =>
                   /\ o \notin DOMAIN all_orders
                   /\ DOMAIN all_orders' = DOMAIN all_orders \cup {o}
                   /\ \A x \in DOMAIN all_orders : all_orders'[x] = all_orders[x]
                   /\ all_orders'[o].status = "pending"
                   /\ all_orders'[o].chat_id = s
                   /\ valid # {}
                   /\ SeqIds(all_orders'[o].items) = valid
                   /\ Len(all_orders'[o].items) = Cardinality(valid)
                   /\ \A k \in 1..Len(all_orders'[o].items) :
                         all_orders'[o].items[k].quantity = cart[all_orders'[o].items[k].id]
                   /\ SeqIds(all_orders'[o].errors) = DOMAIN cart \ valid
                   /\ Len(all_orders'[o].errors) = Cardinality(DOMAIN cart \ valid)
                   /\ user_carts'[s] = <<>>]_vars

\* C20 witness: an order is stored with a valid line and an error for
\* another line, and the cart of its session is empty.
C20_Witness ==
    /\ AllIdle
    /\ \E o \in DOMAIN all_orders :
          /\ all_orders[o].status = "pending"
          /\ all_orders[o].items # <<>>
          /\ all_orders[o].errors # <<>>
          /\ user_carts[all_orders[o].chat_id] = <<>>

\* C21: no checkout stores its order over an order that exists: an order
\* once stored stays under its identifier with its session and its lines,
\* whatever the interleaving of checkouts in different sessions.
C21_OrderIdsUnique ==
    [][\A o \in DOMAIN all_orders :
          /\ o \in DOMAIN all_orders'
          /\ all_orders'[o].chat_id = all_orders[o].chat_id
          /\ all_orders'[o].items = all_orders[o].items]_vars

\* The sum of the costs of order lines.
RECURSIVE SumCost(_)
SumCost(items) == IF items = <<>> THEN 0 ELSE Head(items).cost + SumCost(Tail(items))

\* C22: the lines of an order are a snapshot taken when it is created: every
\* line's cost is its unit price times its quantity, the total is the sum of
\* the costs, and no later step (reload, stock deduction, cart operation,
\* status change) alters the item, quantity, unit price or cost of a line or
\* the total.
C22_OrderLinesFrozen ==
    /\ [](\A o \in DOMAIN all_orders :
            /\ \A k \in 1..Len(all_orders[o].items) :
                  all_orders[o].items[k].cost =
                      all_orders[o].items[k].price * all_orders[o].items[k].quantity
            /\ all_orders[o].total = SumCost(all_orders[o].items))
    /\ [][\A o \in DOMAIN all_orders :
            /\ o \in DOMAIN all_orders'
            /\ all_orders'[o].items = all_orders[o].items
            /\ all_orders'[o].total = all_orders[o].total]_vars

\* An order was delivered after a reload changed the price of its item, and
\* the deduction changed the stock.
C22_Witness ==
    \E o \in DOMAIN all_orders :
        /\ all_orders[o].status = "delivered"
        /\ \E k \in 1..Len(all_orders[o].items) :
              LET l == all_orders[o].items[k]
              IN  /\ l.id \in DOMAIN data
                  /\ data[l.id].price # l.price
                  /\ data[l.id].stock # l.stock

\* Thread w's handler op answers in this step.
Replied(w, op) == pc[w] = "idle" /\ pc'[w] = "answer" /\ loc'[w].op = op

\* C23: a checkout on a session whose cart has no entries answers that the
\* cart is empty, and leaves the pending checkouts, the checkout steps, the
\* orders and the order counter as they were.
C23_EmptyCartCheckout ==
    [][\A w \in Threads :
          (Replied(w, "checkout") /\ user_carts[loc'[w].sess] = <<>>) =>
              /\ loc'[w].res = "empty_cart"
              /\ user_orders' = user_orders
              /\ step' = step
              /\ all_orders' = all_orders
              /\ order_counter' = order_counter]_vars

\* A checkout was refused for an empty cart, while another session's cart
\* holds something.
C23_Witness ==
    \E w \in Threads :
        /\ pc[w] = "answer" /\ loc[w].op = "checkout" /\ loc[w].res = "empty_cart"
        /\ user_carts[loc[w].sess] = <<>>
        /\ \E t \in Sessions : user_carts[t] # <<>>

\* C24: an add, from the item view or from the cart view, is refused and
\* leaves every cart as it was when the item is not in the catalog, its
\* stock is not positive, or the cart holds at least the stock; otherwise
\* the quantity of the item grows by exactly one, no other entry changes,
\* and the new quantity is at most the stock the add read.
C24_AddWithinStock ==
    [][\A w \in Threads :
          (Replied(w, "add") \/ Replied(w, "add_cart")) =>
              LET s == loc'[w].sess
                  i == loc'[w].item
                  c == user_carts[s]
                  n == IF i \in DOMAIN c THEN c[i] ELSE 0
              IN  IF i \notin DOMAIN data \/ data[i].stock <= 0 \/ n >= data[i].stock
                  THEN loc'[w].res # "ok" /\ user_carts' = user_carts
                  ELSE /\ loc'[w].res = "ok"
                       /\ DOMAIN user_carts'[s] = DOMAIN c \cup {i}
                       /\ user_carts'[s][i] = n + 1
                       /\ user_carts'[s][i] <= data[i].stock
                       /\ \A j \in DOMAIN c \ {i} : user_carts'[s][j] = c[j]
                       /\ \A t \in Sessions \ {s} : user_carts'[t] = user_carts[t]]_vars

\* An add went through on a cart that holds another item.
C24_Witness ==
    \E w \in Threads :
        /\ pc[w] = "answer" /\ loc[w].op \in {"add", "add_cart"} /\ loc[w].res = "ok"
        /\ DOMAIN user_carts[loc[w].sess] = ItemIds

\* C25: every entry of every cart has a quantity of at least one.
C25_CartQuantityPositive ==
    \A s \in Sessions : \A i \in DOMAIN user_carts[s] : user_carts[s][i] >= 1

\* A remove took the last unit of an item and the entry is gone.
C25_Witness ==
    \E w \in Threads :
        /\ pc[w] = "answer" /\ loc[w].op = "remove" /\ loc[w].res = "ok"
        /\ loc[w].item \notin DOMAIN user_carts[loc[w].sess]

\* C26: a remove of an item in the cart takes exactly one unit off its
\* quantity and deletes the entry when the quantity reaches zero, every
\* other entry staying as it was; a remove of an item not in the cart answers
\* that the item is not in the cart and leaves the cart as it was.
C26_RemoveOneUnit ==
    [][\A w \in Threads :
          Replied(w, "remove") =>
              LET s == loc'[w].sess
                  i == loc'[w].item
                  c == user_carts[s]
              IN  IF i \notin DOMAIN c
                  THEN loc'[w].res = "not_in_cart" /\ user_carts' = user_carts
                  ELSE /\ loc'[w].res = "ok"
                       /\ IF c[i] - 1 = 0
                          THEN DOMAIN user_carts'[s] = DOMAIN c \ {i}
                          ELSE /\ DOMAIN user_carts'[s] = DOMAIN c
                               /\ user_carts'[s][i] = c[i] - 1
                       /\ \A j \in DOMAIN c \ {i} : user_carts'[s][j] = c[j]]_vars

\* A remove left units of the item in a cart that holds another item.
C26_Witness ==
    \E w \in Threads :
        /\ pc[w] = "answer" /\ loc[w].op = "remove" /\ loc[w].res = "ok"
        /\ DOMAIN user_carts[loc[w].sess] = ItemIds

\* The handlers that write a cart and answer.
CartOps == {"add", "add_cart", "remove", "clear", "checkout"}

\* C27: a clear empties the cart of the session that asked for it, and a
\* step changes the cart of a session only when it is the step of a cart
\* handler or of a checkout of that session.
C27_CartsPerSession ==
    [][/\ \A w \in Threads : Replied(w, "clear") => user_carts'[loc'[w].sess] = <<>>
       /\ \A t \in Sessions :
             user_carts'[t] # user_carts[t] =>
                 \E w \in Threads :
                     \/ \E op \in CartOps : Replied(w, op) /\ loc'[w].sess = t
                     \/ pc[w] = "fo_store" /\ loc[w].sess = t]_vars

\* A session cleared its cart while the other session's cart holds something.
C27_Witness ==
    \E w \in Threads :
        /\ pc[w] = "answer" /\ loc[w].op = "clear"
        /\ user_carts[loc[w].sess] = <<>>
        /\ \E t \in Sessions \ {loc[w].sess} : user_carts[t] # <<>>

\* C28: every item of the catalog has a stock and a price of at least zero,
\* whatever the rows of the sheet it was loaded from.
C28_StockPriceNonNegative ==
    \A i \in DOMAIN data : data[i].stock >= 0 /\ data[i].price >= 0

\* The items of the rows that have a positive numeric id no earlier row
\* has and no text for a price or a stock (an empty cell counts as zero).
CleanRows(rows) ==
    LET good(k) == /\ rows[k].id.k = "num" /\ rows[k].id.v > 0
                   /\ \A j \in 1..(k - 1) : rows[j].id # rows[k].id
                   /\ rows[k].price.k # "text" /\ rows[k].stock.k # "text"
        kept == {k \in 1..Len(rows) : good(k)}
    IN [i \in {rows[k].id.v : k \in kept} |->
            LET r == rows[CHOOSE k \in kept : rows[k].id.v = i]
            IN [price |-> r.price.v, stock |-> r.stock.v]]

\* C29: a reload that reads a changed sheet with its columns leaves as the
\* catalog exactly the items of the sheet's clean rows: rows with an id
\* that is no positive number, a repeated id, or a price or stock that is
\* no number are dropped, and no item of the catalog before remains unless
\* the sheet lists it.
C29_CatalogIsCleanRows ==
    [][\A w \in Threads :
          (/\ pc[w] = "rl_load" /\ pc'[w] = "answer"
           /\ file.exists /\ file.readable /\ file.cols
           /\ file.mtime # last_modified) =>
              data' = CleanRows(file.rows)]_vars

\* C30: a load followed by a reload of the same source gives the catalog of
\* the load: the reload of a source never edited since the program started
\* leaves the catalog as it is, and from every state and from an empty
\* loader a second load of the source it just read changes nothing.
C30_ReloadUnchangedSource ==
    /\ [](/\ LET r == Load(data, last_modified, file)
             IN Load(r.data, r.last_modified, file).data = r.data
          /\ LET r == Load(<<>>, 0, file)
             IN Load(r.data, r.last_modified, file).data = r.data)
    /\ [][\A w \in Threads :
            (pc[w] = "rl_load" /\ pc'[w] = "answer" /\ edits = 0) =>
                data' = data /\ data' = initStock]_vars

\* A reload of the source the program started with has run, and the
\* catalog holds its items.
C30_Witness ==
    /\ edits = 0
    /\ data # <<>> /\ data = initStock
    /\ \E w \in Threads : pc[w] = "answer" /\ loc[w].op = "reload" /\ loc[w].res = "updated"

\* Thread w's save ends in this step without having persisted the catalog.
SaveFailed(w) ==
    pc[w] = "rs_save" /\ pc'[w] # "rs_save" /\ last_modified' = last_modified

\* C31: a save that fails leaves the source with the version it held just
\* before the save, and the source is at all times a readable sheet that
\* holds the catalog last persisted, whatever fails among the backup copy,
\* the write and the removal of the backup.
C31_FailedSaveRestoresSource ==
    /\ [][\A w \in Threads : SaveFailed(w) => file' = file]_vars
    /\ [](/\ file.exists /\ file.readable /\ file.cols
          /\ file.rows = Serialize(persisted))

\* A deliver of order o is under way.
Delivering(o) ==
    \E w \in Threads :
        loc[w].op = "deliver" /\ loc[w].oid = o /\ pc[w] \notin {"idle", "answer"}

\* C32: once a deliver of an order has ended, the stock deductions made for
\* the order are those of all of its lines or of none: a deliver in which
\* the deduction of a line fails leaves no other line of the order deducted.
C32_DeliverAllOrNothing ==
    \A o \in DOMAIN all_orders :
        ~Delivering(o) =>
            LET done == {i \in LineIds(o) : Deductions(o, i) >= 1}
            IN done = {} \/ done = LineIds(o)

\* C33: when a checkout stores its order and empties the cart, every item
\* the cart holds at that moment is in the order, as a line or as a
\* reported rejection.
C33_NoCartLineLost ==
    [][\A w \in Threads :
          (pc[w] = "fo_store" /\ pc'[w] # "fo_store") =>
              LET o == all_orders'[loc[w].oid]
              IN \A i \in DOMAIN user_carts[loc[w].sess] :
                    \/ \E k \in 1..Len(o.items) : o.items[k].id = i
                    \/ \E k \in 1..Len(o.errors) : o.errors[k].id = i]_vars

\* The status changes a confirm and a cancel of a pending order may make.
ConfirmCancelEdges ==
    {<<"pending", "confirmed">>, <<"pending", "cancelled">>, <<"confirmed", "cancelled">>}

\* C34: with confirm and cancel callbacks on the same order in any
\* interleaving, every change of the order's status follows one of the edges
\* pending -> confirmed, pending -> cancelled, confirmed -> cancelled: a
\* cancelled order is never confirmed, and stays cancelled.
C34_ConfirmCancelEdges ==
    [][\A o \in DOMAIN all_orders :
          (o \in DOMAIN all_orders' /\ all_orders'[o].status # all_orders[o].status) =>
              <<all_orders[o].status, all_orders'[o].status>> \in ConfirmCancelEdges]_vars

====
